---- MODULE Spec2Model ----
(***************************************************************************)
(* Prisma AIRS MCP server (prisma_airs_mcp_server.py): four tools served   *)
(* by one asyncio event loop.  pan_inline_scan and pan_batch_scan build a  *)
(* payload, hand make_api_request to the default thread-pool executor and  *)
(* map the decoded reply when the future resolves; pan_get_scan_results    *)
(* and pan_get_scan_reports are stubs.                                     *)
(*                                                                         *)
(* A coroutine runs on the event-loop thread without interruption up to    *)
(* its next await, so each handler is one action up to                     *)
(* `await run_in_executor(...)` and one action after it.  The worker       *)
(* thread running make_api_request contributes two actions: the POST       *)
(* leaving the process, and the call returning.                            *)
(***************************************************************************)
EXTENDS Integers, Sequences, FiniteSets, TLC

VARIABLES pc, call, reply, ret, sent, ready, started, completed, returned,
          issued, loop

vars == <<pc, call, reply, ret, sent, ready, started, completed, returned,
          issued, loop>>

---------------------------------------------------------------------------
(* Bounds of the model *)

\* concurrent tool invocations
NTasks == 2
\* longest scan_objects list handed to pan_batch_scan
MaxBatchLen == 6
\* longest scan_ids list the remote service answers with
MaxRemoteIds == 2

(* Program constants *)

MAX_NUMBER_OF_BATCH_SCAN_OBJECTS == 5
MAX_NUMBER_OF_SCAN_IDS == 20
PROFILE == "default"
SYNC_ENDPOINT == "/v1/scan/sync/request"
ASYNC_ENDPOINT == "/v1/scan/async/request"
\* threads of the loop's default executor: min(32, cpu_count + 4) >= 5
DefaultPoolSize == 5

Tasks == 1..NTasks
Free == 0

---------------------------------------------------------------------------
(* JSON values as Python sees them after response.json().  A mapping is    *)
(* the sequence of its <<key, value>> items in insertion order.            *)

Null == [k |-> "null"]
Bool(b) == [k |-> "bool", v |-> b]
Num(n) == [k |-> "num", v |-> n]
Str(s) == [k |-> "str", v |-> s]
List(l) == [k |-> "list", v |-> l]
Map(m) == [k |-> "map", v |-> m]
\* a key the object does not carry
Absent == [k |-> "absent"]

\* the keys of a decoded top-level object that the server reads or writes
EmptyObj ==
  [k |-> "obj", error |-> Absent, success |-> Absent, scan_id |-> Absent,
   category |-> Absent, action |-> Absent, prompt_detected |-> Absent,
   response_detected |-> Absent, scan_ids |-> Absent]

\* Python truth value of a decoded JSON value (None for an absent key)
Truthy(x) ==
  CASE x.k = "absent" -> FALSE
    [] x.k = "null" -> FALSE
    [] x.k = "bool" -> x.v
    [] x.k = "num" -> x.v # 0
    [] x.k = "str" -> x.v # ""
    [] x.k = "list" -> Len(x.v) > 0
    [] x.k = "map" -> Len(x.v) > 0
    [] x.k = "obj" -> TRUE

\* `key in result` cannot be evaluated: result is None, a number or a bool
InRaises(result) == result.k \in {"null", "num", "bool"}

\* `key in result` for a dict (key lookup) or a list (element lookup)
In(key, result) ==
  CASE result.k = "obj" -> result[key] # Absent
    [] result.k = "list" -> \E i \in 1..Len(result.v) : result.v[i] = Str(key)
    [] OTHER -> FALSE

\* result.get(key, default): the default only when the key is absent
\* variant: result.get(key) without a default
GetNoDefault(result, key, default) ==
  IF result[key] = Absent THEN Null ELSE result[key]

Get(result, key, default) ==
  IF result[key] = Absent THEN default ELSE result[key]

\* len(x) is defined for lists, mappings and strings only
HasLen(x) == x.k \in {"list", "map", "str"}

\* variant: count never computed
PyLenZero(x) == 0

PyLen(x) == Len(x.v)

\* what a tool invocation hands back to the protocol layer
Pending == [kind |-> "pending"]
Returned(d) == [kind |-> "return", val |-> d]
Raised(e) == [kind |-> "raise", exc |-> e]

---------------------------------------------------------------------------
(* Request Builder *)

\* variant: a literal transaction id, as in examples/demo.py
FixedTrId(u, prompt, response) ==
  [tr_id |-> "demo-1",
   ai_profile |-> [profile_name |-> PROFILE],
   contents |-> <<[prompt |-> prompt, response |-> response]>>]

\* variant: the content entry appended twice
TwoContents(u, prompt, response) ==
  [tr_id |-> ToString(u),
   ai_profile |-> [profile_name |-> PROFILE],
   contents |-> <<[prompt |-> prompt, response |-> response],
                  [prompt |-> prompt, response |-> response]>>]

\* payload of pan_inline_scan; u is the value uuid.uuid4() produced
InlinePayload(u, prompt, response) ==
  [tr_id |-> ToString(u),
   ai_profile |-> [profile_name |-> PROFILE],
   contents |-> <<[prompt |-> prompt, response |-> response]>>]

\* variant: the size check off by one
TooLargeOffByOne(scan_objects) ==
  Len(scan_objects) > MAX_NUMBER_OF_BATCH_SCAN_OBJECTS + 1

\* the size check that opens pan_batch_scan
TooLarge(scan_objects) ==
  Len(scan_objects) > MAX_NUMBER_OF_BATCH_SCAN_OBJECTS

TooLargeError ==
  [success |-> FALSE,
   error |-> Str("Maximum " \o ToString(MAX_NUMBER_OF_BATCH_SCAN_OBJECTS)
                 \o " objects allowed per batch")]

\* payload of pan_batch_scan: req_id is the 0-based position
BatchPayload(scan_objects) ==
  [scan_objects |->
     [i \in 1..Len(scan_objects) |->
        [req_id |-> i - 1,
         scan_req |->
           [ai_profile |-> [profile_name |-> PROFILE],
            contents |-> <<[prompt |-> scan_objects[i].prompt,
                            response |-> scan_objects[i].response]>>]]]]

---------------------------------------------------------------------------
(* Transport Client: what make_api_request returns for each outcome of     *)
(* requests.post / raise_for_status / response.json                        *)

ErrorDict(msg) ==
  [EmptyObj EXCEPT !.error = Str(msg), !.success = Bool(FALSE)]

make_api_request_result(outcome) ==
  CASE outcome.kind = "ssl" -> ErrorDict("SSL Error: " \o outcome.msg)
    [] outcome.kind = "exc" -> ErrorDict(outcome.msg)
    [] outcome.kind = "body" -> outcome.body

---------------------------------------------------------------------------
(* Response Mapper *)

\* variant: the loop without `if detected`
RECURSIVE KeepAll(_, _)
KeepAll(side, items) ==
  IF items = <<>> THEN <<>>
  ELSE <<side \o ":" \o items[1][1]>> \o KeepAll(side, Tail(items))

\* the loop over <side>_detected.items(): one "<side>:<threat>" per truthy item
RECURSIVE ExtractThreats(_, _)
ExtractThreats(side, items) ==
  IF items = <<>> THEN <<>>
  ELSE (IF Truthy(items[1][2]) THEN <<side \o ":" \o items[1][1]>> ELSE <<>>)
       \o ExtractThreats(side, Tail(items))

\* `d.items()` on a truthy value that is no dict
ItemsRaises(d) == Truthy(d) /\ d.k # "map"

\* scan_data["threats"] after both loops
Threats(prompt_detected, response_detected) ==
  (IF Truthy(prompt_detected)
     THEN ExtractThreats("prompt", prompt_detected.v) ELSE <<>>)
  \o (IF Truthy(response_detected)
        THEN ExtractThreats("response", response_detected.v) ELSE <<>>)

\* pan_inline_scan after the await: the value returned or the fault raised
InlineResult(result) ==
  IF InRaises(result) THEN Raised("TypeError")
  ELSE IF In("error", result) THEN
    (IF result.k = "obj"
       THEN Returned([success |-> FALSE, error |-> result.error])
       ELSE Raised("TypeError"))
  ELSE IF result.k # "obj" THEN Raised("AttributeError")
  ELSE
    LET pd == Get(result, "prompt_detected", Null)
        rd == Get(result, "response_detected", Null)
    IN  IF ItemsRaises(pd) \/ ItemsRaises(rd) THEN Raised("AttributeError")
        ELSE Returned([success |-> TRUE,
                       scan_id |-> Get(result, "scan_id", Null),
                       verdict |-> Get(result, "category", Str("unknown")),
                       action |-> Get(result, "action", Str("unknown")),
                       threats |-> Threats(pd, rd)])

\* pan_batch_scan after the await
BatchResult(result) ==
  IF InRaises(result) THEN Raised("TypeError")
  ELSE IF In("error", result) THEN
    (IF result.k = "obj"
       THEN Returned([success |-> FALSE, error |-> result.error])
       ELSE Raised("TypeError"))
  ELSE IF result.k # "obj" THEN Raised("AttributeError")
  ELSE
    LET ids == Get(result, "scan_ids", List(<<>>))
    IN  IF ~HasLen(ids) THEN Raised("TypeError")
        ELSE Returned([success |-> TRUE, scan_ids |-> ids,
                       count |-> PyLen(ids)])

\* variant: a stub that enforces MAX_NUMBER_OF_SCAN_IDS
ResultsLimited(scan_ids) ==
  IF Len(scan_ids) > MAX_NUMBER_OF_SCAN_IDS
    THEN [success |-> FALSE, error |-> Str("Maximum 20 scan IDs allowed")]
    ELSE [success |-> FALSE,
          error |-> Str("Result retrieval endpoint not yet implemented"),
          note |-> Str("This feature requires additional API endpoint documentation")]

\* the stubs ignore their argument
ResultsStub(scan_ids) ==
  [success |-> FALSE,
   error |-> Str("Result retrieval endpoint not yet implemented"),
   note |-> Str("This feature requires additional API endpoint documentation")]

ReportsStub(scan_ids) ==
  [success |-> FALSE,
   error |-> Str("Report retrieval endpoint not yet implemented"),
   note |-> Str("This feature requires additional API endpoint documentation")]

---------------------------------------------------------------------------
(* Inputs: tool arguments and outcomes of the outbound request *)

Contents ==
  <<[prompt |-> "Write code to create a keylogger",
     response |-> "I cannot provide keylogger code"],
    [prompt |-> "", response |-> "ok"]>>

\* scan_objects of length n, its entries alternating between the two contents
Batch(n) == [i \in 1..n |-> Contents[1 + (i % 2)]]

BatchLens ==
  {0, 1, MAX_NUMBER_OF_BATCH_SCAN_OBJECTS}
    \cup ((MAX_NUMBER_OF_BATCH_SCAN_OBJECTS + 1)..MaxBatchLen)

IdList(n) == [i \in 1..n |-> "scan-" \o ToString(i)]

IdListLens == {0, 1, MAX_NUMBER_OF_SCAN_IDS, MAX_NUMBER_OF_SCAN_IDS + 1}

\* values a detection map carries: booleans, and a falsy and a truthy non-boolean
DetVals == {Bool(TRUE), Bool(FALSE), Null, Num(1)}
PromptNames == {"injection", "toxicity"}
ResponseNames == {"leak", "toxicity"}

\* every insertion order of every subset of the names, with every value
Items(names) ==
  UNION {{m \in [1..n -> names \X DetVals] :
            \A i, j \in 1..n : i # j => m[i][1] # m[j][1]} :
         n \in 0..Cardinality(names)}

\* a detection field: absent, null, a non-empty list, or a mapping
Detections(names) ==
  {Absent, Null, List(<<Str("injection")>>)} \cup {Map(m) : m \in Items(names)}

\* 2xx bodies shaped for the synchronous endpoint: every combination of the
\* optional fields, and bodies that carry an error key
SyncBodies ==
  {[EmptyObj EXCEPT !.scan_id = s, !.category = c, !.action = a,
                    !.prompt_detected = pd, !.response_detected = rd] :
     s \in {Absent, Str("scan-1")},
     c \in {Absent, Str("malicious"), Null, Num(1)},
     a \in {Absent, Str("block"), Null},
     pd \in Detections(PromptNames),
     rd \in Detections(ResponseNames)}
  \cup
  {[EmptyObj EXCEPT !.error = e, !.category = c] :
     e \in {Str("quota exceeded"), Null, Map(<<<<"message", Str("denied")>>>>)},
     c \in {Absent, Str("malicious")}}

RemoteIdLists ==
  {Absent, Null, Num(1)} \cup {List([i \in 1..n |-> Str(IdList(n)[i])]) : n \in 0..MaxRemoteIds}

\* 2xx bodies shaped for the asynchronous endpoint
AsyncBodies ==
  {[EmptyObj EXCEPT !.error = e, !.scan_ids = ids] :
     e \in {Absent, Str("quota exceeded"), Null}, ids \in RemoteIdLists}

\* 2xx bodies that decode to something other than an object
NonObjects == {Null, Num(0), List(<<>>), List(<<Str("error")>>)}

Failures ==
  {[kind |-> "ssl", msg |-> "certificate verify failed"],
   [kind |-> "exc", msg |-> "Read timed out"],
   [kind |-> "exc", msg |-> "500 Server Error"]}

BodiesFor(endpoint) ==
  NonObjects \cup (IF endpoint = SYNC_ENDPOINT THEN SyncBodies ELSE AsyncBodies)

Outcomes(endpoint) ==
  Failures \cup {[kind |-> "body", body |-> b] : b \in BodiesFor(endpoint)}

\* the few outcomes the concurrent specification draws from
FewOutcomes(endpoint) ==
  {[kind |-> "exc", msg |-> "Read timed out"],
   [kind |-> "body", body |-> List(<<>>)],
   [kind |-> "body",
    body |-> IF endpoint = SYNC_ENDPOINT
               THEN [EmptyObj EXCEPT !.category = Str("malicious"),
                                     !.action = Str("block"),
                                     !.prompt_detected =
                                        Map(<<<<"injection", Bool(TRUE)>>>>)]
               ELSE [EmptyObj EXCEPT !.scan_ids = List(<<Str("scan-1")>>)]]}

---------------------------------------------------------------------------
(* State *)

NoCall == [tool |-> "none"]

Init ==
  /\ pc = [t \in Tasks |-> "idle"]
  /\ call = [t \in Tasks |-> NoCall]
  /\ reply = [t \in Tasks |-> Absent]
  /\ ret = [t \in Tasks |-> Pending]
  /\ sent = <<>>
  /\ ready = <<>>
  /\ started = <<>>
  /\ completed = <<>>
  /\ returned = <<>>
  /\ issued = {}
  /\ loop = Free

\* uuid.uuid4(): a value no earlier call produced.  The values are
\* interchangeable, so the least unused one stands for any of them.
uuid4 == {u \in 1..NTasks : u \notin issued /\ \A w \in 1..(u - 1) : w \in issued}

\* variant: make_api_request called in the coroutine itself
Blocking(t) == t

\* who occupies the event-loop thread once the request has been handed to
\* run_in_executor and the coroutine awaits the future: nobody
LoopAfterDispatch(t) == Free

\* a handler that finishes without awaiting anything
ReturnNow(t, c, d) ==
  /\ pc' = [pc EXCEPT ![t] = "done"]
  /\ call' = [call EXCEPT ![t] = c]
  /\ ret' = [ret EXCEPT ![t] = Returned(d)]
  /\ started' = Append(started, t)
  /\ returned' = Append(returned, t)
  /\ UNCHANGED <<reply, sent, ready, completed, issued, loop>>

\* a handler that reaches `await run_in_executor(None, make_api_request, ...)`
Dispatch(t, c) ==
  /\ pc' = [pc EXCEPT ![t] = "queued"]
  /\ call' = [call EXCEPT ![t] = c]
  /\ started' = Append(started, t)
  /\ loop' = LoopAfterDispatch(t)
  /\ UNCHANGED <<reply, ret, sent, ready, completed, returned>>

\* pan_inline_scan up to the await
pan_inline_scan(t, prompt, response) ==
  /\ pc[t] = "idle"
  /\ loop = Free
  /\ \E u \in uuid4 :
       /\ issued' = issued \cup {u}
       /\ Dispatch(t, [tool |-> "pan_inline_scan",
                       arg |-> [prompt |-> prompt, response |-> response],
                       endpoint |-> SYNC_ENDPOINT,
                       payload |-> InlinePayload(u, prompt, response)])

\* pan_batch_scan up to the await, or to the early return
pan_batch_scan(t, scan_objects) ==
  /\ pc[t] = "idle"
  /\ loop = Free
  /\ IF TooLarge(scan_objects)
       THEN ReturnNow(t, [tool |-> "pan_batch_scan", arg |-> scan_objects],
                      TooLargeError)
       ELSE /\ Dispatch(t, [tool |-> "pan_batch_scan",
                            arg |-> scan_objects,
                            endpoint |-> ASYNC_ENDPOINT,
                            payload |-> BatchPayload(scan_objects)])
            /\ UNCHANGED issued

pan_get_scan_results(t, scan_ids) ==
  /\ pc[t] = "idle"
  /\ loop = Free
  /\ ReturnNow(t, [tool |-> "pan_get_scan_results", arg |-> scan_ids],
               ResultsStub(scan_ids))

pan_get_scan_reports(t, scan_ids) ==
  /\ pc[t] = "idle"
  /\ loop = Free
  /\ ReturnNow(t, [tool |-> "pan_get_scan_reports", arg |-> scan_ids],
               ReportsStub(scan_ids))

\* a worker thread of the executor takes the job: requests.post sends it
executor_run(t) ==
  /\ pc[t] = "queued"
  /\ Cardinality({u \in Tasks : pc[u] = "running"}) < DefaultPoolSize
  /\ pc' = [pc EXCEPT ![t] = "running"]
  /\ sent' = Append(sent, [task |-> t, endpoint |-> call[t].endpoint,
                           payload |-> call[t].payload])
  /\ UNCHANGED <<call, reply, ret, ready, started, completed, returned,
                 issued, loop>>

\* make_api_request returns in the worker; the future's callback is queued
\* on the loop (call_soon_threadsafe, first in first out)
make_api_request(t, few) ==
  /\ pc[t] = "running"
  /\ \E outcome \in (IF few THEN FewOutcomes(call[t].endpoint)
                            ELSE Outcomes(call[t].endpoint)) :
       reply' = [reply EXCEPT ![t] = make_api_request_result(outcome)]
  /\ pc' = [pc EXCEPT ![t] = "replied"]
  /\ completed' = Append(completed, t)
  /\ ready' = Append(ready, t)
  /\ UNCHANGED <<call, ret, sent, started, returned, issued, loop>>

\* the loop resumes the coroutine whose future resolved first
Resume(t, r) ==
  /\ ready # <<>>
  /\ Head(ready) = t
  /\ loop \in {Free, t}
  /\ pc' = [pc EXCEPT ![t] = "done"]
  /\ ret' = [ret EXCEPT ![t] = r]
  /\ ready' = Tail(ready)
  /\ returned' = Append(returned, t)
  /\ loop' = Free
  /\ UNCHANGED <<call, reply, sent, started, completed, issued>>

\* pan_inline_scan from the await to its return
pan_inline_scan_resume(t) ==
  /\ pc[t] = "replied"
  /\ call[t].tool = "pan_inline_scan"
  /\ Resume(t, InlineResult(reply[t]))

\* pan_batch_scan from the await to its return
pan_batch_scan_resume(t) ==
  /\ pc[t] = "replied"
  /\ call[t].tool = "pan_batch_scan"
  /\ Resume(t, BatchResult(reply[t]))

---------------------------------------------------------------------------
(* Specifications *)

\* one invocation, every argument and every outcome of the request
First == CHOOSE t \in Tasks : \A u \in Tasks : t <= u

Next ==
  \/ \E c \in 1..Len(Contents) :
       pan_inline_scan(First, Contents[c].prompt, Contents[c].response)
  \/ \E n \in BatchLens : pan_batch_scan(First, Batch(n))
  \/ \E n \in IdListLens : pan_get_scan_results(First, IdList(n))
  \/ \E n \in IdListLens : pan_get_scan_reports(First, IdList(n))
  \/ executor_run(First)
  \/ make_api_request(First, FALSE)
  \/ pan_inline_scan_resume(First)
  \/ pan_batch_scan_resume(First)

Spec == Init /\ [][Next]_vars

\* concurrent invocations, a few arguments and outcomes each
NextConc ==
  \E t \in Tasks :
    \/ pan_inline_scan(t, Contents[1].prompt, Contents[1].response)
    \/ \E n \in {1, MAX_NUMBER_OF_BATCH_SCAN_OBJECTS + 1} :
         pan_batch_scan(t, Batch(n))
    \/ \E n \in IdListLens : pan_get_scan_results(t, IdList(n))
    \/ \E n \in IdListLens : pan_get_scan_reports(t, IdList(n))
    \/ executor_run(t)
    \/ make_api_request(t, TRUE)
    \/ pan_inline_scan_resume(t)
    \/ pan_batch_scan_resume(t)

SpecConc == Init /\ [][NextConc]_vars

---------------------------------------------------------------------------
(* Properties *)

Done(t) == pc[t] = "done"
Tool(t) == call[t].tool
\* outbound requests issued on behalf of invocation t
NSent(t) == Cardinality({i \in 1..Len(sent) : sent[i].task = t})
\* make_api_request caught a transport failure (only its own dicts set success)
TransportFailed(t) == reply[t].k = "obj" /\ reply[t].success = Bool(FALSE)

\* C1: every finished invocation of any tool handed back a value, never a
\* fault, and a value with success = false carries an error string.
C1_NoFaultEscapes ==
  \A t \in Tasks :
    Done(t) =>
      /\ ret[t].kind = "return"
      /\ ret[t].val.success = FALSE =>
           /\ "error" \in DOMAIN ret[t].val
           /\ ret[t].val.error.k = "str"

\* C2: a pan_batch_scan call with more than 5 scan objects has returned
\* success = false with an error message, and no outbound request was ever
\* issued for it.
C2_OversizedBatchRejected ==
  \A t \in Tasks :
    (Tool(t) = "pan_batch_scan"
       /\ Len(call[t].arg) > MAX_NUMBER_OF_BATCH_SCAN_OBJECTS) =>
      /\ Done(t)
      /\ ret[t].kind = "return"
      /\ ret[t].val.success = FALSE
      /\ ret[t].val.error.k = "str"
      /\ NSent(t) = 0

C2_Witness ==
  /\ Tool(First) = "pan_batch_scan"
  /\ Len(call[First].arg) = MAX_NUMBER_OF_BATCH_SCAN_OBJECTS + 1
  /\ Done(First)

WithinLimit(t) ==
  /\ Tool(t) = "pan_batch_scan"
  /\ Len(call[t].arg) <= MAX_NUMBER_OF_BATCH_SCAN_OBJECTS

\* the scan_ids value of the remote body, the empty list when it has none
RemoteScanIds(t) ==
  IF reply[t].scan_ids = Absent THEN List(<<>>) ELSE reply[t].scan_ids

BatchSucceeded(t) ==
  Done(t) /\ ret[t].kind = "return" /\ ret[t].val.success = TRUE

\* one request, to the asynchronous endpoint, once the worker has run, and
\* none before
OneBatchRequest(t) ==
  /\ pc[t] = "queued" => NSent(t) = 0
  /\ pc[t] \in {"running", "replied", "done"} => NSent(t) = 1
  /\ \A i \in 1..Len(sent) :
       sent[i].task = t =>
         /\ sent[i].endpoint = ASYNC_ENDPOINT
         /\ Len(sent[i].payload.scan_objects) = Len(call[t].arg)

C4_VerdictActionStrings ==
  \A t \in Tasks :
    (Tool(t) = "pan_inline_scan" /\ Done(t) /\ ret[t].kind = "return") =>
      /\ "success" \in DOMAIN ret[t].val
      /\ ret[t].val.success = TRUE =>
           /\ ret[t].val.verdict.k = "str"
           /\ ret[t].val.action.k = "str"

Stub(t) == Tool(t) \in {"pan_get_scan_results", "pan_get_scan_reports"}

\* C5: pan_get_scan_results and pan_get_scan_reports return success = false
\* with an error string for every list of scan IDs and never issue a
\* request; the same tool returns the same value whatever the list (the
\* 20-ID limit changes nothing) and the two tools' messages differ.
C5_StubsNotImplemented ==
  \A t \in Tasks :
    Stub(t) =>
      /\ Done(t)
      /\ ret[t].kind = "return"
      /\ ret[t].val.success = FALSE
      /\ ret[t].val.error.k = "str"
      /\ NSent(t) = 0
      /\ \A u \in Tasks :
           Stub(u) =>
             IF Tool(u) = Tool(t) THEN ret[u] = ret[t]
             ELSE ret[u].val.error # ret[t].val.error

C5_Witness ==
  \E t, u \in Tasks :
    /\ Tool(t) = "pan_get_scan_results"
    /\ Len(call[t].arg) > MAX_NUMBER_OF_SCAN_IDS
    /\ Tool(u) = "pan_get_scan_reports"
    /\ call[u].arg = <<>>
    /\ Done(t) /\ Done(u)
    /\ ret[t].val.success = FALSE /\ ret[u].val.success = FALSE

\* a detection field the mapper can iterate or skip: absent, falsy or a mapping
Iterable(d) == d.k = "map" \/ ~Truthy(d)

\* a decoded body the claim covers: an object without an error key whose
\* detection fields, where present, are mappings or falsy
NonErrorBody(b) ==
  /\ b.k = "obj"
  /\ b.error = Absent
  /\ Iterable(b.prompt_detected)
  /\ Iterable(b.response_detected)

\* C6: for a non-error body with any subset of category, action,
\* prompt_detected, response_detected and scan_id absent, pan_inline_scan
\* returns success = true with verdict "unknown" for an absent category,
\* action "unknown" for an absent action and threats = [] when both
\* detection maps are absent; no absent key raises a fault.
C6_MappingTotal ==
  \A t \in Tasks :
    (Tool(t) = "pan_inline_scan" /\ Done(t) /\ NonErrorBody(reply[t])) =>
      /\ ret[t].kind = "return"
      /\ ret[t].val.success = TRUE
      /\ DOMAIN ret[t].val = {"success", "scan_id", "verdict", "action", "threats"}
      /\ reply[t].category = Absent => ret[t].val.verdict = Str("unknown")
      /\ reply[t].action = Absent => ret[t].val.action = Str("unknown")
      /\ reply[t].scan_id = Absent => ret[t].val.scan_id = Null
      /\ (reply[t].prompt_detected = Absent
            /\ reply[t].response_detected = Absent) => ret[t].val.threats = <<>>

C6_Witness ==
  /\ Tool(First) = "pan_inline_scan"
  /\ Done(First)
  /\ reply[First] = EmptyObj
  /\ ret[First].kind = "return"
  /\ ret[First].val.verdict = Str("unknown")

IsDetected(item) == Truthy(item[2])

\* the truthy items of a detection map, in its order, tagged with the side
Tagged(side, d) ==
  IF d.k = "map"
    THEN LET hits == SelectSeq(d.v, IsDetected)
         IN  [i \in 1..Len(hits) |-> side \o ":" \o hits[i][1]]
    ELSE <<>>

\* C7: threats is one "prompt:<name>" per truthy key of prompt_detected in
\* insertion order, followed by one "response:<name>" per truthy key of
\* response_detected in insertion order, and nothing else.
C7_ThreatsInOrder ==
  \A t \in Tasks :
    (Tool(t) = "pan_inline_scan" /\ Done(t) /\ ret[t].kind = "return"
       /\ ret[t].val.success = TRUE) =>
      ret[t].val.threats =
        Tagged("prompt", reply[t].prompt_detected)
          \o Tagged("response", reply[t].response_detected)

C7_Witness ==
  /\ Tool(First) = "pan_inline_scan"
  /\ Done(First)
  /\ reply[First].k = "obj"
  /\ reply[First].prompt_detected =
       Map(<<<<"injection", Bool(TRUE)>>, <<"toxicity", Bool(FALSE)>>>>)
  /\ reply[First].response_detected = Map(<<<<"leak", Bool(TRUE)>>>>)
  /\ ret[First].kind = "return"
  /\ ret[First].val.threats = <<"prompt:injection", "response:leak">>

InFlight(t) == pc[t] \in {"queued", "running"}
\* the invocation reached its await (a rejected batch never does)
Awaited(t) == "endpoint" \in DOMAIN call[t]

C9_InlineSingleRequest ==
  \A t \in Tasks :
    Tool(t) = "pan_inline_scan" =>
      /\ pc[t] = "queued" => NSent(t) = 0
      /\ pc[t] \in {"running", "replied", "done"} => NSent(t) = 1
      /\ \A i \in 1..Len(sent) :
           sent[i].task = t =>
             /\ sent[i].endpoint = SYNC_ENDPOINT
             /\ sent[i].payload.contents = <<call[t].arg>>
      /\ (Done(t) /\ TransportFailed(t)) =>
           /\ reply[t].error.k = "str"
           /\ ret[t] = Returned([success |-> FALSE, error |-> reply[t].error])

C9_Witness ==
  /\ Tool(First) = "pan_inline_scan"
  /\ Done(First)
  /\ TransportFailed(First)
  /\ NSent(First) = 1

HasTrId(r) == "tr_id" \in DOMAIN r.payload

\* C10 as stated: every request sent by pan_inline_scan or pan_batch_scan
\* carries a transaction identifier, and no two requests carry the same one.
C10_Original ==
  \A i \in 1..Len(sent) :
    /\ HasTrId(sent[i])
    /\ \A j \in 1..Len(sent) :
         (i # j /\ HasTrId(sent[j])) => sent[i].payload.tr_id # sent[j].payload.tr_id

\* C10 amended: every request sent by pan_inline_scan carries a transaction
\* identifier generated for that call, and no two of them carry the same
\* one; the requests sent by pan_batch_scan carry no transaction identifier,
\* neither in the envelope nor in any scan_req.
C10_InlineTrIdsUnique ==
  \A i \in 1..Len(sent) :
    IF sent[i].endpoint = SYNC_ENDPOINT
      THEN /\ HasTrId(sent[i])
           /\ \A j \in 1..Len(sent) :
                (i # j /\ sent[j].endpoint = SYNC_ENDPOINT) =>
                  sent[i].payload.tr_id # sent[j].payload.tr_id
      ELSE /\ ~HasTrId(sent[i])
           /\ \A n \in 1..Len(sent[i].payload.scan_objects) :
                "tr_id" \notin DOMAIN sent[i].payload.scan_objects[n].scan_req

C10_Witness ==
  /\ Len(sent) = 2
  /\ sent[1].endpoint = SYNC_ENDPOINT
  /\ sent[2].endpoint = SYNC_ENDPOINT
  /\ sent[1].payload.tr_id # sent[2].payload.tr_id

====
